---- MODULE Spec2Model ----
(***************************************************************************)
(* The mock backend (src/fakeData/fakeData.tsx), the delay utility         *)
(* (src/lib/sleep.ts) and the session-gated routing layer (AppRouter.tsx,  *)
(* hooks/useAuthQuery.js, auth/components/PrivateRouter) as a state        *)
(* machine.                                                                *)
(*                                                                         *)
(* Strings that the code formats or inspects character by character (the   *)
(* ids `C1-XXXXX` and `M1-XXXXX`) are sequences of one-character strings;  *)
(* all other strings are TLA+ strings.  A Date is its distance in minutes  *)
(* from 2022-01-01T00:00, so getTime() comparisons keep their sign.        *)
(* Durations handed to sleep() are in milliseconds, as in the code.        *)
(***************************************************************************)
EXTENDS Integers, Sequences, FiniteSets, TLC

VARIABLES
  clientRecords,    \* fakeClients.records, in property (insertion) order
  messageRecords,   \* fakeMessages.records, in property (insertion) order
  timers,           \* the pending setTimeout timers of sleep(), in creation order
  completed,        \* the settled promises of the exported API, in settling order
  returned,         \* the clients createEmptyClient has returned, in call order
  now,              \* the wall clock read by `new Date()`
  writes,           \* number of direct store writes performed so far
  authToken,        \* localStorage['auth_token']
  authQuery,        \* the query cache entries ['auth', token]
  userQuery,        \* the query cache entry ['user']
  location,         \* the router's current path
  guard,            \* the mounted PrivateRouter, if any: the key it observes and what it rendered
  decisions         \* every <<isAuthenticated, view>> pair a guard render has produced

vars == << clientRecords, messageRecords, timers, completed, returned, now, writes,
           authToken, authQuery, userQuery, location, guard, decisions >>
storeVars == << clientRecords, messageRecords, returned, now, writes >>
routeVars == << authToken, authQuery, userQuery, location, guard, decisions >>

(***************************************************************************)
(* Bounds of the model.                                                    *)
(***************************************************************************)
MaxCalls == 2        \* API calls issued in one run
MaxWrites == 2       \* direct store writes (setClient, createEmptyClient, addMessage) in one run
MaxTicks == 1        \* minutes the wall clock advances in one run
TimeStep == 250      \* resolution, in ms, at which the model lets time pass between timer expiries
NowStart == 1578240  \* the wall clock when the module is loaded: 2025-01-01, after every seed date

(***************************************************************************)
(* Program constants.                                                      *)
(***************************************************************************)
LoginUserDelay == 1200
CheckAuthDelay == 500
GetClientsDelay == 500
GetClientDelay == 500
GetClientMessagesDelay == 300
GetAllMessagesDelay == 500
SendMessageDelay == 300
ClientIdBase == 10000
ClientIdSpan == 90000
MessageIdBase == 10000
MessageIdSpan == 90000
ExpectedToken == "token-1234567890"

(***************************************************************************)
(* Values.                                                                 *)
(***************************************************************************)
\* JavaScript's `undefined`, and `null` where a string is expected
\* (localStorage.getItem of a missing key): a value no token equals.
Undefined == [undefined |-> TRUE]
Null == "(null)"

\* The values floor(Math.random() * 90000) takes in the model, in createEmptyClient
\* and in sendMessage; Math.random() is in [0, 1), so the product's floor is in
\* 0 .. 89999.  64999 gives the id of the seed client C1-74999, 2345 that of the
\* seed message M1-12345.
ClientRandoms == {2345, 64999}
MessageRandoms == {2345, 89999}
\* The least and the greatest value of floor(Math.random() * 90000), and one between.
IdRandoms == {0, 2345, ClientIdSpan - 1}

\* The tokens presented to checkAuth or kept in localStorage.
Tokens == {ExpectedToken, "bogus", ""}

DigitChar == << "0", "1", "2", "3", "4", "5", "6", "7", "8", "9" >>

\* Number-to-string conversion of a template literal, for n >= 0.
RECURSIVE NumberToString(_)
NumberToString(n) ==
  IF n < 10 THEN << DigitChar[n + 1] >>
  ELSE NumberToString(n \div 10) \o << DigitChar[(n % 10) + 1] >>

(* The seed array `clients` (dates are minutes since 2022-01-01; non-ASCII letters are transliterated). *)
clients ==
  << [id |-> <<"C","1","-","7","4","9","9","9">>, name |-> "Juan Rodriguez", email |-> "jrodriguez@gmail.com", phone |-> "+506 7952-6056", address |-> "Calle Principal, San Pedro, San Jose",
      memberSince |-> 601920, currentPlan |-> "basic"],
     [id |-> <<"C","1","-","8","1","6","7","8">>, name |-> "Maria Vargas", email |-> "mfvargas@outlook.com", phone |-> "+506 6181-6404", address |-> "Avenida Central, Escazu, San Jose",
      memberSince |-> 420480, currentPlan |-> "basic"],
     [id |-> <<"C","1","-","6","0","0","7","8">>, name |-> "Edison Andres", email |-> "edison.andres@yahoo.com", phone |-> "+57 350 730-9926", address |-> "Barrio viveros Ibague/tolima",
      memberSince |-> 1074240, currentPlan |-> "pro"],
     [id |-> <<"C","1","-","6","8","1","9","5">>, name |-> "Ana Campos", email |-> "alcampos@hotmail.com", phone |-> "+506 7839-6163", address |-> "Residencial Los Arcos, Casa 15, Heredia",
      memberSince |-> 1468800, currentPlan |-> "pro"],
     [id |-> <<"C","1","-","7","2","3","3","6">>, name |-> "Carlos Mora", email |-> "camora85@gmail.com", phone |-> "+506 6029-7816", address |-> "Condominio Valle del Sol, Cartago",
      memberSince |-> 1179360, currentPlan |-> "basic"],
     [id |-> <<"C","1","-","9","1","2","3","4">>, name |-> "Isabel Castro", email |-> "ijimenez@empresa.co.cr", phone |-> "+506 7102-3987", address |-> "Barrio Los Yoses, San Jose",
      memberSince |-> 763200, currentPlan |-> "premium"],
     [id |-> <<"C","1","-","5","6","7","8","9">>, name |-> "Roberto Quiros", email |-> "rsolano@corporacion.com", phone |-> "+506 6554-7852", address |-> "Curridabat, 300m Sur del Walmart",
      memberSince |-> 486720, currentPlan |-> "enterprise"],
     [id |-> <<"C","1","-","3","3","4","5","6">>, name |-> "Patricia Wong", email |-> "pmendez@consultora.net", phone |-> "+506 6883-6594", address |-> "Residencial Monteran, Santa Ana",
      memberSince |-> 861120, currentPlan |-> "pro"],
     [id |-> <<"C","1","-","1","2","9","8","7">>, name |-> "Diego Chen", email |-> "dalvarado@tech.cr", phone |-> "+506 6999-5214", address |-> "Condominio Avalon, Tres Rios",
      memberSince |-> 1108800, currentPlan |-> "premium"],
     [id |-> <<"C","1","-","6","5","4","3","2">>, name |-> "Sofia Blanco", email |-> "sramirez@grupo.com", phone |-> "+506 7254-8473", address |-> "Pinares de Curridabat, Casa 78",
      memberSince |-> 694080, currentPlan |-> "enterprise"] >>
(* The seed array `messages`. *)
messages ==
  << [id |-> <<"M","1","-","1","2","3","4","5">>, clientId |-> <<"C","1","-","7","4","9","9","9">>,
      content |-> "Hola, necesito informacion sobre como actualizar mi plan actual.",
      createdAt |-> 1238970, sender |-> "client", like |-> "neutral"],
     [id |-> <<"M","1","-","1","2","3","4","6">>, clientId |-> <<"C","1","-","7","4","9","9","9">>,
      content |-> "Buenos dias Juan. Con gusto te puedo ayudar con eso. Estas interesado en cambiar de un plan Basico a otro nivel?",
      createdAt |-> 1238975, sender |-> "agent", like |-> "liked"],
     [id |-> <<"M","1","-","1","2","3","4","7">>, clientId |-> <<"C","1","-","7","4","9","9","9">>,
      content |-> "Si, me gustaria conocer los beneficios del plan Pro.",
      createdAt |-> 1238980, sender |-> "client", like |-> "neutral"],
     [id |-> <<"M","1","-","2","3","4","5","6">>, clientId |-> <<"C","1","-","8","1","6","7","8">>,
      content |-> "Tengo problemas para acceder a mi cuenta. Me dice credenciales incorrectas.",
      createdAt |-> 1242140, sender |-> "client", like |-> "neutral"],
     [id |-> <<"M","1","-","2","3","4","5","7">>, clientId |-> <<"C","1","-","8","1","6","7","8">>,
      content |-> "Lamento escuchar eso, Maria. Vamos a solucionarlo. Has intentado restablecer tu contrasena?",
      createdAt |-> 1242145, sender |-> "agent", like |-> "neutral"],
     [id |-> <<"M","1","-","2","3","4","5","8">>, clientId |-> <<"C","1","-","8","1","6","7","8">>,
      content |-> "Si, pero no recibo el correo de restablecimiento.",
      createdAt |-> 1242150, sender |-> "client", like |-> "neutral"],
     [id |-> <<"M","1","-","2","3","4","5","9">>, clientId |-> <<"C","1","-","8","1","6","7","8">>,
      content |-> "Entiendo. Acabo de enviar manualmente un enlace de restablecimiento a tu correo. Por favor revisa tambien la carpeta de spam.",
      createdAt |-> 1242155, sender |-> "agent", like |-> "liked"],
     [id |-> <<"M","1","-","3","4","5","6","7">>, clientId |-> <<"C","1","-","6","0","0","7","8">>,
      content |-> "Cuales son las nuevas caracteristicas del plan Pro que contrate?",
      createdAt |-> 1246270, sender |-> "client", like |-> "neutral"],
     [id |-> <<"M","1","-","3","4","5","6","8">>, clientId |-> <<"C","1","-","6","0","0","7","8">>,
      content |-> "Hola Edison. El plan Pro incluye soporte prioritario, acceso a herramientas avanzadas de analisis y 50GB de almacenamiento adicional.",
      createdAt |-> 1246275, sender |-> "agent", like |-> "liked"],
     [id |-> <<"M","1","-","4","5","6","7","8">>, clientId |-> <<"C","1","-","5","6","7","8","9">>,
      content |-> "Necesitamos agregar 5 usuarios mas a nuestra cuenta Enterprise. Cual es el proceso?",
      createdAt |-> 1250925, sender |-> "client", like |-> "neutral"],
     [id |-> <<"M","1","-","4","5","6","7","9">>, clientId |-> <<"C","1","-","5","6","7","8","9">>,
      content |-> "Buenas tardes Roberto. Para agregar usuarios adicionales a su plan Enterprise, puede hacerlo directamente desde el panel de administracion o puedo asistirle con el proceso.",
      createdAt |-> 1250930, sender |-> "agent", like |-> "neutral"],
     [id |-> <<"M","1","-","4","5","6","8","0">>, clientId |-> <<"C","1","-","5","6","7","8","9">>,
      content |-> "Preferiria que me asista, por favor.",
      createdAt |-> 1250935, sender |-> "client", like |-> "neutral"],
     [id |-> <<"M","1","-","4","5","6","8","1">>, clientId |-> <<"C","1","-","5","6","7","8","9">>,
      content |-> "Con gusto. Necesitare los nombres y correos electronicos de los nuevos usuarios. Los tiene disponibles ahora?",
      createdAt |-> 1250940, sender |-> "agent", like |-> "liked"],
     [id |-> <<"M","1","-","5","6","7","8","9">>, clientId |-> <<"C","1","-","6","5","4","3","2">>,
      content |-> "Estamos considerando actualizar a un plan con mas capacidad. Que nos recomiendan?",
      createdAt |-> 1253415, sender |-> "client", like |-> "neutral"],
     [id |-> <<"M","1","-","5","6","7","9","0">>, clientId |-> <<"C","1","-","6","5","4","3","2">>,
      content |-> "Buenos dias Sofia. Basado en el uso actual de su cuenta Enterprise, estan utilizando eficientemente los recursos. Sin embargo, si planean expandirse en los proximos meses, podriamos discutir opciones personalizadas.",
      createdAt |-> 1253420, sender |-> "agent", like |-> "liked"],
     [id |-> <<"M","1","-","5","6","7","9","1">>, clientId |-> <<"C","1","-","6","5","4","3","2">>,
      content |-> "Excelente. Tenemos planes de crecer un 30% este trimestre. Podriamos agendar una llamada para discutir opciones?",
      createdAt |-> 1253425, sender |-> "client", like |-> "liked"],
     [id |-> <<"M","1","-","6","7","8","9","0">>, clientId |-> <<"C","1","-","1","2","9","8","7">>,
      content |-> "La nueva actualizacion esta causando lentitud en nuestro sistema. Hay alguna solucion?",
      createdAt |-> 1256500, sender |-> "client", like |-> "neutral"],
     [id |-> <<"M","1","-","6","7","8","9","1">>, clientId |-> <<"C","1","-","1","2","9","8","7">>,
      content |-> "Lamento escuchar eso, Diego. Estamos al tanto de algunos problemas de rendimiento con la ultima actualizacion. Nuestro equipo tecnico esta trabajando en una solucion que estara disponible en las proximas 24 horas.",
      createdAt |-> 1256505, sender |-> "agent", like |-> "neutral"],
     [id |-> <<"M","1","-","6","7","8","9","2">>, clientId |-> <<"C","1","-","1","2","9","8","7">>,
      content |-> "Entiendo, pero esto esta afectando nuestras operaciones. Hay alguna solucion temporal que podamos implementar?",
      createdAt |-> 1256510, sender |-> "client", like |-> "neutral"],
     [id |-> <<"M","1","-","6","7","8","9","3">>, clientId |-> <<"C","1","-","1","2","9","8","7">>,
      content |-> "Por supuesto. Le recomendaria reiniciar el servicio y limitar el procesamiento en segundo plano temporalmente. Puedo guiarle a traves de estos pasos si lo desea.",
      createdAt |-> 1256515, sender |-> "agent", like |-> "disliked"],
     [id |-> <<"M","1","-","6","7","8","9","4">>, clientId |-> <<"C","1","-","1","2","9","8","7">>,
      content |-> "Si, por favor guieme a traves del proceso.",
      createdAt |-> 1256520, sender |-> "client", like |-> "neutral"] >>

(***************************************************************************)
(* Array.prototype.sort with a comparator: a stable sort.  Element i goes  *)
(* behind every element the comparator puts before it and behind every     *)
(* earlier element the comparator ties with it.                            *)
(***************************************************************************)
ArraySort(s, compare(_, _)) ==
  LET before(i) == {j \in 1..Len(s) :
                      \/ compare(s[j], s[i]) < 0
                      \/ compare(s[j], s[i]) = 0 /\ j < i}
  IN [p \in 1..Len(s) |-> s[CHOOSE i \in 1..Len(s) : Cardinality(before(i)) + 1 = p]]

RECURSIVE Flat(_)
Flat(arrays) ==
  IF arrays = << >> THEN << >> ELSE Head(arrays) \o Flat(Tail(arrays))

(***************************************************************************)
(* fakeClients                                                             *)
(***************************************************************************)
HasClient(records, id) == \E i \in 1..Len(records) : records[i].id = id

\* A variant of the lookup that falls back to the first record.
getClientOrFirst(records, id) ==
  IF HasClient(records, id)
  THEN records[CHOOSE i \in 1..Len(records) : records[i].id = id]
  ELSE records[1]
\* records[id]
getClient(records, id) ==
  IF HasClient(records, id)
  THEN records[CHOOSE i \in 1..Len(records) : records[i].id = id]
  ELSE Undefined

\* A variant of the comparator with its operands exchanged (oldest first).
compareMemberSinceAscending(a, b) == a.memberSince - b.memberSince
\* (a, b) => b.memberSince.getTime() - a.memberSince.getTime()
compareMemberSince(a, b) == b.memberSince - a.memberSince

getClients(records) == ArraySort(records, compareMemberSince)

\* A variant of setClient that always adds a record (push onto a list).
setClientAppending(records, client) == Append(records, client)
\* A variant of setClient that keeps the record an id already has.
setClientKeepFirst(records, client) ==
  IF HasClient(records, client.id) THEN records ELSE Append(records, client)
\* records[client.id] = client: a new key goes last, an existing key keeps its place.
setClient(records, client) ==
  IF HasClient(records, client.id)
  THEN [i \in 1..Len(records) |->
          IF records[i].id = client.id THEN client ELSE records[i]]
  ELSE Append(records, client)

\* A variant of newEmptyClient whose id number lacks the 10000 offset.
newEmptyClientNoOffset(random, date) ==
  [id |-> << "C", "1", "-" >> \o NumberToString(random),
   name |-> "", email |-> "", phone |-> "", address |-> "",
   memberSince |-> date, currentPlan |-> "basic"]
newEmptyClient(random, date) ==
  [id |-> << "C", "1", "-" >> \o NumberToString(ClientIdBase + random),
   name |-> "", email |-> "", phone |-> "", address |-> "",
   memberSince |-> date, currentPlan |-> "basic"]

(***************************************************************************)
(* fakeMessages                                                            *)
(***************************************************************************)
HasGroup(records, clientId) == \E i \in 1..Len(records) : records[i].key = clientId

GroupOf(records, clientId) ==
  records[CHOOSE i \in 1..Len(records) : records[i].key = clientId].list

\* A variant of the lookup without its `|| []`.
getMessagesNoDefault(records, clientId) ==
  IF HasGroup(records, clientId) THEN GroupOf(records, clientId) ELSE Undefined
\* records[clientId] || []
getMessages(records, clientId) ==
  IF HasGroup(records, clientId) THEN GroupOf(records, clientId) ELSE << >>

\* A variant of the comparator with its operands exchanged (oldest first).
compareCreatedAtAscending(a, b) == a.createdAt - b.createdAt
\* (a, b) => b.createdAt.getTime() - a.createdAt.getTime()
compareCreatedAt(a, b) == b.createdAt - a.createdAt

getAllMessagesOf(records) ==
  ArraySort(Flat([i \in 1..Len(records) |-> records[i].list]), compareCreatedAt)

\* A variant of addMessage that puts the message first in its group (unshift).
addMessagePrepend(records, message) ==
  LET created == IF HasGroup(records, message.clientId) THEN records
                 ELSE Append(records, [key |-> message.clientId, list |-> << >>])
  IN [i \in 1..Len(created) |->
        IF created[i].key = message.clientId
        THEN [created[i] EXCEPT !.list = << message >> \o @]
        ELSE created[i]]
\* A variant of addMessage that files the message under its own id.
addMessageUnderId(records, message) ==
  LET created == IF HasGroup(records, message.id) THEN records
                 ELSE Append(records, [key |-> message.id, list |-> << >>])
  IN [i \in 1..Len(created) |->
        IF created[i].key = message.id
        THEN [created[i] EXCEPT !.list = Append(@, message)]
        ELSE created[i]]
\* A variant of addMessage that starts the group anew on every call.
addMessageReset(records, message) ==
  IF HasGroup(records, message.clientId)
  THEN [i \in 1..Len(records) |->
          IF records[i].key = message.clientId
          THEN [records[i] EXCEPT !.list = << message >>]
          ELSE records[i]]
  ELSE Append(records, [key |-> message.clientId, list |-> << message >>])
\* if (!records[message.clientId]) records[message.clientId] = []; then push.
addMessage(records, message) ==
  LET created == IF HasGroup(records, message.clientId) THEN records
                 ELSE Append(records, [key |-> message.clientId, list |-> << >>])
  IN [i \in 1..Len(created) |->
        IF created[i].key = message.clientId
        THEN [created[i] EXCEPT !.list = Append(@, message)]
        ELSE created[i]]

\* A variant of newMessage that sets another reaction.
newMessageLiked(message, random) ==
  [id |-> << "M", "1", "-" >> \o NumberToString(MessageIdBase + random),
   clientId |-> message.clientId, content |-> message.content,
   createdAt |-> message.createdAt, sender |-> message.sender, like |-> "liked"]
\* { ...message, id: `M1-${...}`, like: 'neutral' }
newMessage(message, random) ==
  [id |-> << "M", "1", "-" >> \o NumberToString(MessageIdBase + random),
   clientId |-> message.clientId, content |-> message.content,
   createdAt |-> message.createdAt, sender |-> message.sender, like |-> "neutral"]

(***************************************************************************)
(* Authentication                                                          *)
(***************************************************************************)
\* A variant of loginUser that hands out a token checkAuth does not know.
loginUserResultUnknownToken ==
  [id |-> "U1-12345", name |-> "Edison Perez",
   email |-> "edisonperez@gmail.com", token |-> "bogus"]
\* loginUser after its sleep: the value the promise resolves with.
loginUserResult ==
  [id |-> "U1-12345", name |-> "Edison Perez",
   email |-> "edisonperez@gmail.com", token |-> "token-1234567890"]

\* A variant of checkAuth without the comparison.
checkAuthAcceptsAll(token) ==
  [kind |-> "resolved", value |-> [id |-> "U1-12345", name |-> "Edison Perez"]]
\* checkAuth after its sleep: how the promise settles.
checkAuth(token) ==
  IF token /= ExpectedToken
  THEN [kind |-> "rejected", value |-> "Invalid token"]
  ELSE [kind |-> "resolved", value |-> [id |-> "U1-12345", name |-> "Edison Perez"]]

(***************************************************************************)
(* The stores after the module's top-level code has run: both seed loops.  *)
(***************************************************************************)
RECURSIVE SeedClients(_, _)
SeedClients(records, rest) ==
  IF rest = << >> THEN records
  ELSE SeedClients(setClient(records, Head(rest)), Tail(rest))

RECURSIVE SeedMessages(_, _)
SeedMessages(records, rest) ==
  IF rest = << >> THEN records
  ELSE SeedMessages(addMessage(records, Head(rest)), Tail(rest))

(***************************************************************************)
(* Inputs the model draws from.                                            *)
(***************************************************************************)
SeededId == << "C", "1", "-", "7", "4", "9", "9", "9" >>    \* a seed client with messages
NeverId == << "C", "1", "-", "0", "0", "0", "0", "0" >>     \* an id no operation ever inserts
LaterId == << "C", "1", "-", "1", "2", "3", "4", "5" >>     \* absent at first, createEmptyClient can generate it
ClientReadIds == {NeverId, LaterId}
MessageReadIds == {SeededId, NeverId, LaterId}

\* A createdAt equal to that of the seed message M1-12345, and one after every seed message.
SeedCreatedAt == messages[1].createdAt
MessageInputs ==
  { [clientId |-> SeededId, content |-> "ping", createdAt |-> NowStart, sender |-> "client"],
    [clientId |-> SeededId, content |-> "pong", createdAt |-> SeedCreatedAt, sender |-> "agent"],
    [clientId |-> NeverId, content |-> "ping", createdAt |-> NowStart, sender |-> "client"] }

\* A replacement of the seed client C1-74999 and a client under a new id; their
\* memberSince values tie with those of the seed clients C1-68195 and C1-81678.
ClientInputs ==
  { [id |-> SeededId, name |-> "Juan R.", email |-> "jrodriguez@gmail.com",
     phone |-> "+506 7952-6056", address |-> "Calle Principal, San Pedro, San Jose",
     memberSince |-> clients[4].memberSince, currentPlan |-> "pro"],
    [id |-> << "C", "1", "-", "2", "0", "0", "0", "0" >>, name |-> "Nuevo", email |-> "",
     phone |-> "", address |-> "", memberSince |-> clients[2].memberSince,
     currentPlan |-> "premium"] }

\* A message the module could add directly: it opens a group of its own.
DirectMessages ==
  { [id |-> << "M", "1", "-", "9", "0", "0", "0", "0" >>, clientId |-> LaterId,
     content |-> "hola", createdAt |-> NowStart, sender |-> "client", like |-> "liked"] }

(***************************************************************************)
(* sleep(ms): a timer.  Time is kept as each timer's remaining delay.  A   *)
(* timer whose delay has elapsed runs once every timer set before it with  *)
(* an equal or smaller delay has run.                                      *)
(***************************************************************************)
\* `issued` numbers the API calls in the order they were made.
sleep(op, arg, by, ms) ==
  [op |-> op, arg |-> arg, by |-> by, delay |-> ms, rem |-> ms,
   issued |-> IF by = "caller" THEN Len(timers) + Len(completed) + 1 ELSE 0]

\* A variant of Elapsed without the order among timers that are due together.
ElapsedInAnyOrder(i) == timers[i].rem = 0
Elapsed(i) ==
  /\ timers[i].rem = 0
  /\ ~\E j \in 1..(i - 1) : timers[j].rem = 0 /\ timers[j].delay <= timers[i].delay

Without(s, i) == [k \in 1..(Len(s) - 1) |-> IF k < i THEN s[k] ELSE s[k + 1]]

MinRem == CHOOSE m \in {timers[i].rem : i \in 1..Len(timers)} :
            \A i \in 1..Len(timers) : m <= timers[i].rem

\* The amounts of time the model lets pass at once: up to the next expiry.
AdvanceSteps ==
  IF timers = << >> THEN {}
  ELSE {MinRem} \cup {k * TimeStep : k \in 1..(MinRem \div TimeStep)}

\* Time passes.
Advance(d) ==
  /\ timers /= << >>
  /\ d \in 1..MinRem
  /\ timers' = [i \in 1..Len(timers) |-> [timers[i] EXCEPT !.rem = @ - d]]
  /\ UNCHANGED << completed, storeVars, routeVars >>

\* The wall clock moves on by a minute.
Tick ==
  /\ now < NowStart + MaxTicks
  /\ now' = now + 1
  /\ UNCHANGED << clientRecords, messageRecords, returned, writes, timers, completed, routeVars >>

CanCall == Len(timers) + Len(completed) < MaxCalls

\* A settled call: what was called and when, how long its sleep lasted, how
\* it settled.
Settled(t, kind, value) ==
  [op |-> t.op, arg |-> t.arg, issued |-> t.issued, slept |-> t.delay - t.rem,
   kind |-> kind, value |-> value]

Resumes(i, op) ==
  /\ i \in 1..Len(timers)
  /\ timers[i].op = op
  /\ timers[i].by = "caller"
  /\ Elapsed(i)
  /\ timers' = Without(timers, i)

(***************************************************************************)
(* The exported API: each function up to its `await sleep`, and from it.   *)
(***************************************************************************)
loginUserCall ==
  /\ CanCall
  /\ timers' = Append(timers, sleep("loginUser", Undefined, "caller", LoginUserDelay))
  /\ UNCHANGED << completed, storeVars, routeVars >>

loginUserResume(i) ==
  /\ Resumes(i, "loginUser")
  /\ completed' = Append(completed, Settled(timers[i], "resolved", loginUserResult))
  /\ UNCHANGED << storeVars, routeVars >>

checkAuthCall(token) ==
  /\ CanCall
  /\ timers' = Append(timers, sleep("checkAuth", token, "caller", CheckAuthDelay))
  /\ UNCHANGED << completed, storeVars, routeVars >>

checkAuthResume(i) ==
  /\ Resumes(i, "checkAuth")
  /\ LET r == checkAuth(timers[i].arg)
     IN completed' = Append(completed, Settled(timers[i], r.kind, r.value))
  /\ UNCHANGED << storeVars, routeVars >>

getClientsCall ==
  /\ CanCall
  /\ timers' = Append(timers, sleep("getClients", Undefined, "caller", GetClientsDelay))
  /\ UNCHANGED << completed, storeVars, routeVars >>

\* A variant of getClients that sorts the directory itself, not a copy.
getClientsSortingInPlace(i) ==
  /\ Resumes(i, "getClients")
  /\ clientRecords' = getClients(clientRecords)
  /\ completed' = Append(completed, Settled(timers[i], "resolved", clientRecords'))
  /\ UNCHANGED << messageRecords, returned, now, writes, routeVars >>
getClientsResume(i) ==
  /\ Resumes(i, "getClients")
  /\ completed' = Append(completed, Settled(timers[i], "resolved", getClients(clientRecords)))
  /\ UNCHANGED << storeVars, routeVars >>

getClientCall(id) ==
  /\ CanCall
  /\ timers' = Append(timers, sleep("getClient", id, "caller", GetClientDelay))
  /\ UNCHANGED << completed, storeVars, routeVars >>

getClientResume(i) ==
  /\ Resumes(i, "getClient")
  /\ completed' = Append(completed,
                         Settled(timers[i], "resolved", getClient(clientRecords, timers[i].arg)))
  /\ UNCHANGED << storeVars, routeVars >>

getClientMessagesCall(clientId) ==
  /\ CanCall
  /\ timers' = Append(timers, sleep("getClientMessages", clientId, "caller", GetClientMessagesDelay))
  /\ UNCHANGED << completed, storeVars, routeVars >>

getClientMessagesResume(i) ==
  /\ Resumes(i, "getClientMessages")
  /\ completed' = Append(completed,
                         Settled(timers[i], "resolved", getMessages(messageRecords, timers[i].arg)))
  /\ UNCHANGED << storeVars, routeVars >>

getAllMessagesCall ==
  /\ CanCall
  /\ timers' = Append(timers, sleep("getAllMessages", Undefined, "caller", GetAllMessagesDelay))
  /\ UNCHANGED << completed, storeVars, routeVars >>

\* A variant of getAllMessages that answers with the ledger as it was when
\* the call was made: without what the sendMessage calls made after it stored.
getAllMessagesAtCall(i) ==
  /\ Resumes(i, "getAllMessages")
  /\ LET later == {completed[k].value :
                     k \in {k \in 1..Len(completed) :
                              /\ completed[k].op = "sendMessage"
                              /\ completed[k].issued > timers[i].issued}}
         AtCall(m) == m \notin later
     IN completed' = Append(completed,
                            Settled(timers[i], "resolved",
                                    SelectSeq(getAllMessagesOf(messageRecords), AtCall)))
  /\ UNCHANGED << storeVars, routeVars >>
getAllMessagesResume(i) ==
  /\ Resumes(i, "getAllMessages")
  /\ completed' = Append(completed,
                         Settled(timers[i], "resolved", getAllMessagesOf(messageRecords)))
  /\ UNCHANGED << storeVars, routeVars >>

sendMessageCall(message) ==
  /\ CanCall
  /\ timers' = Append(timers, sleep("sendMessage", message, "caller", SendMessageDelay))
  /\ UNCHANGED << completed, storeVars, routeVars >>

\* A variant of the continuation that also registers an unknown clientId in
\* the directory.
sendMessageRegistering(i, random) ==
  /\ Resumes(i, "sendMessage")
  /\ LET created == newMessage(timers[i].arg, random)
         client == [newEmptyClient(0, now) EXCEPT !.id = created.clientId]
     IN /\ messageRecords' = addMessage(messageRecords, created)
        /\ clientRecords' = IF HasClient(clientRecords, created.clientId)
                            THEN clientRecords
                            ELSE setClient(clientRecords, client)
        /\ completed' = Append(completed, Settled(timers[i], "resolved", created))
  /\ UNCHANGED << returned, now, writes, routeVars >>
\* A variant of the continuation that returns the message without storing it.
sendMessageUnstored(i, random) ==
  /\ Resumes(i, "sendMessage")
  /\ completed' = Append(completed,
                         Settled(timers[i], "resolved", newMessage(timers[i].arg, random)))
  /\ UNCHANGED << storeVars, routeVars >>
sendMessageResume(i, random) ==
  /\ Resumes(i, "sendMessage")
  /\ LET created == newMessage(timers[i].arg, random)
     IN /\ messageRecords' = addMessage(messageRecords, created)
        /\ completed' = Append(completed, Settled(timers[i], "resolved", created))
  /\ UNCHANGED << clientRecords, returned, now, writes, routeVars >>

(***************************************************************************)
(* The module-private store writes.                                        *)
(***************************************************************************)
setClientWrite(client) ==
  /\ writes < MaxWrites
  /\ writes' = writes + 1
  /\ clientRecords' = setClient(clientRecords, client)
  /\ UNCHANGED << messageRecords, returned, now, timers, completed, routeVars >>

\* createEmptyClient runs without suspending; the client it returns is recorded.
createEmptyClient(random) ==
  /\ writes < MaxWrites
  /\ writes' = writes + 1
  /\ LET client == newEmptyClient(random, now)
     IN /\ clientRecords' = setClient(clientRecords, client)
        /\ returned' = Append(returned, client)
  /\ UNCHANGED << messageRecords, now, timers, completed, routeVars >>

addMessageWrite(message) ==
  /\ writes < MaxWrites
  /\ writes' = writes + 1
  /\ messageRecords' = addMessage(messageRecords, message)
  /\ UNCHANGED << clientRecords, returned, now, timers, completed, routeVars >>

(***************************************************************************)
(* The session-gated routing layer.                                        *)
(*                                                                         *)
(* useQuery is TanStack Query v5 (the code imports BrowserRouter from      *)
(* 'react-router', which is React Router 7): isLoading is isFetching &&    *)
(* isPending, a disabled query that never ran is pending and idle, a       *)
(* query without data is fetched again when an observer mounts or changes  *)
(* to its key, and a fetch of a query without data puts it back to         *)
(* pending.  A run is shorter than staleTime and gcTime; window-focus and  *)
(* reconnect refetches are left out.                                       *)
(***************************************************************************)
\* useQuery's defaults where the code passes no option: retry, retryDelay.
DefaultRetry == 3
DefaultRetryDelay(failureCount) ==
  IF 1000 * 2 ^ failureCount < 30000 THEN 1000 * 2 ^ failureCount ELSE 30000

\* A query that has not run.
IdleQuery == [status |-> "pending", fetchStatus |-> "idle", data |-> Undefined,
              failureCount |-> 0]

\* !!token
Truthy(token) == token /= Null /\ token /= ""

\* What useQuery hands to the component.
useQueryResult(query) ==
  [data |-> query.data,
   isLoading |-> query.fetchStatus = "fetching" /\ query.status = "pending",
   isError |-> query.status = "error"]

Fetching(query) == [query EXCEPT !.fetchStatus = "fetching", !.status =
                      IF query.data = Undefined THEN "pending" ELSE @]

\* PrivateRouter's body: what it returns for a query result.
PrivateRouter(result) ==
  IF result.isLoading THEN "loading"
  ELSE IF result.isError THEN "redirect"
  ELSE "children"

\* isAuthenticated={!!user}
IsAuthenticated == userQuery.data /= Undefined

AppMounted == userQuery /= IdleQuery
RoutesRendered == AppMounted /\ ~useQueryResult(userQuery).isLoading

\* A variant of the guard's render whose query is enabled whatever the token.
RenderGuardAlwaysEnabled(cache, pending, mounting) ==
  LET token == authToken
      query == cache[token]
      fetches == /\ query.data = Undefined
                 /\ query.fetchStatus = "idle"
                 /\ mounting \/ guard.key /= token
      cache2 == IF fetches
                THEN [cache EXCEPT ![token] = [Fetching(query) EXCEPT !.failureCount = 0]]
                ELSE cache
      pending2 == IF fetches
                  THEN Append(pending, sleep("checkAuth", token, "auth", CheckAuthDelay))
                  ELSE pending
  IN [cache |-> cache2, timers |-> pending2,
      guard |-> [mounted |-> TRUE, key |-> token,
                 view |-> PrivateRouter(useQueryResult(cache2[token]))]]
\* One render of PrivateRouter over the cache `cache` and the timers `pending`:
\* useAuthQuery reads the token, useQuery observes ['auth', token] and starts
\* checkAuth when it must; the result is the cache, the timers and the guard.
RenderGuard(cache, pending, mounting) ==
  LET token == authToken
      query == cache[token]
      fetches == /\ Truthy(token)
                 /\ query.data = Undefined
                 /\ query.fetchStatus = "idle"
                 /\ mounting \/ guard.key /= token
      cache2 == IF fetches
                THEN [cache EXCEPT ![token] = [Fetching(query) EXCEPT !.failureCount = 0]]
                ELSE cache
      pending2 == IF fetches
                  THEN Append(pending, sleep("checkAuth", token, "auth", CheckAuthDelay))
                  ELSE pending
  IN [cache |-> cache2, timers |-> pending2,
      guard |-> [mounted |-> TRUE, key |-> token,
                 view |-> PrivateRouter(useQueryResult(cache2[token]))]]

Decided(g) ==
  IF g.view \in {"children", "redirect"}
  THEN decisions \cup {<< IsAuthenticated, g.view >>}
  ELSE decisions

Unmounted == [mounted |-> FALSE, key |-> Null, view |-> "none"]

\* The 'user' query's queryFn (AppRouter), and what a failure of it leads to.
UserFailed(query, pending) ==
  IF query.failureCount < DefaultRetry
  THEN [query |-> [query EXCEPT !.failureCount = @ + 1],
        timers |-> Append(pending, sleep("retry", Undefined, "user",
                                         DefaultRetryDelay(query.failureCount)))]
  ELSE [query |-> [query EXCEPT !.status = "error", !.fetchStatus = "idle"],
        timers |-> pending]

UserQueryFn(query, pending) ==
  IF ~Truthy(authToken)
  THEN UserFailed(query, pending)
  ELSE [query |-> query,
        timers |-> Append(pending, sleep("checkAuth", authToken, "user", CheckAuthDelay))]

\* AppRouter mounts: its query starts fetching.
AppRouterMount ==
  /\ ~AppMounted
  /\ LET r == UserQueryFn(Fetching(userQuery), timers)
     IN userQuery' = r.query /\ timers' = r.timers
  /\ UNCHANGED << completed, storeVars, authToken, authQuery, location, guard, decisions >>

\* A retry timer of the 'user' query expires: the queryFn runs again.
UserRetry(i) ==
  /\ i \in 1..Len(timers)
  /\ timers[i].op = "retry" /\ timers[i].by = "user"
  /\ Elapsed(i)
  /\ LET r == UserQueryFn(userQuery, Without(timers, i))
     IN userQuery' = r.query /\ timers' = r.timers
  /\ UNCHANGED << completed, storeVars, authToken, authQuery, location, guard, decisions >>

\* The checkAuth call of the 'user' query settles.
UserSettle(i) ==
  /\ i \in 1..Len(timers)
  /\ timers[i].op = "checkAuth" /\ timers[i].by = "user"
  /\ Elapsed(i)
  /\ LET outcome == checkAuth(timers[i].arg)
         failed == UserFailed(userQuery, Without(timers, i))
     IN IF outcome.kind = "resolved"
        THEN /\ userQuery' = [userQuery EXCEPT !.status = "success", !.fetchStatus = "idle",
                                               !.data = outcome.value]
             /\ timers' = Without(timers, i)
        ELSE userQuery' = failed.query /\ timers' = failed.timers
  /\ UNCHANGED << completed, storeVars, authToken, authQuery, location, guard, decisions >>

\* The router shows a chat route: PrivateRouter mounts and renders.
GuardMount ==
  /\ RoutesRendered
  /\ location = "/chat"
  /\ ~guard.mounted
  /\ LET r == RenderGuard(authQuery, timers, TRUE)
     IN /\ authQuery' = r.cache
        /\ timers' = r.timers
        /\ guard' = r.guard
        /\ decisions' = Decided(r.guard)
  /\ UNCHANGED << completed, storeVars, authToken, userQuery, location >>

\* The mounted PrivateRouter renders again (its parent rendered).
GuardRender ==
  /\ guard.mounted
  /\ LET r == RenderGuard(authQuery, timers, FALSE)
     IN /\ authQuery' = r.cache
        /\ timers' = r.timers
        /\ guard' = r.guard
        /\ decisions' = Decided(r.guard)
  /\ UNCHANGED << completed, storeVars, authToken, userQuery, location >>

\* The checkAuth call of an ['auth', token] query settles (retry: false); a
\* PrivateRouter observing that query renders again.
AuthSettle(i) ==
  /\ i \in 1..Len(timers)
  /\ timers[i].op = "checkAuth" /\ timers[i].by = "auth"
  /\ Elapsed(i)
  /\ LET token == timers[i].arg
         outcome == checkAuth(token)
         settled == IF outcome.kind = "resolved"
                    THEN [authQuery[token] EXCEPT !.status = "success", !.fetchStatus = "idle",
                                                  !.data = outcome.value]
                    ELSE [authQuery[token] EXCEPT !.status = "error", !.fetchStatus = "idle",
                                                  !.failureCount = @ + 1]
         cache == [authQuery EXCEPT ![token] = settled]
         r == RenderGuard(cache, Without(timers, i), FALSE)
     IN IF guard.mounted /\ guard.key = token
        THEN /\ authQuery' = r.cache
             /\ timers' = r.timers
             /\ guard' = r.guard
             /\ decisions' = Decided(r.guard)
        ELSE /\ authQuery' = cache
             /\ timers' = Without(timers, i)
             /\ UNCHANGED << guard, decisions >>
  /\ UNCHANGED << completed, storeVars, authToken, userQuery, location >>

\* <Navigate to="/auth" /> rendered by PrivateRouter takes effect.
FollowRedirect ==
  /\ guard.mounted
  /\ guard.view = "redirect"
  /\ location' = "/auth"
  /\ guard' = Unmounted
  /\ UNCHANGED << completed, storeVars, timers, authToken, authQuery, userQuery, decisions >>

\* <Route path="/"> and <Route path="*">: <Navigate to="/auth" />.
IndexRedirect ==
  /\ RoutesRendered
  /\ location = "/"
  /\ location' = "/auth"
  /\ UNCHANGED << completed, storeVars, timers, authToken, authQuery, userQuery, guard,
                  decisions >>

\* The user opens a path (a link, the address bar).
NavigateTo(path) ==
  /\ RoutesRendered
  /\ location /= path
  /\ location' = path
  /\ guard' = IF path = "/chat" THEN guard ELSE Unmounted
  /\ UNCHANGED << completed, storeVars, timers, authToken, authQuery, userQuery, decisions >>

\* The environment writes the session token: localStorage.setItem / removeItem.
SetToken(token) ==
  /\ authToken /= token
  /\ authToken' = token
  /\ UNCHANGED << completed, storeVars, timers, authQuery, userQuery, location, guard,
                  decisions >>

RemoveToken ==
  /\ authToken /= Null
  /\ authToken' = Null
  /\ UNCHANGED << completed, storeVars, timers, authQuery, userQuery, location, guard,
                  decisions >>

(***************************************************************************)
(* Initial state: the module is loaded, nothing is mounted, no call made.  *)
(***************************************************************************)
Init ==
  /\ clientRecords = SeedClients(<< >>, clients)
  /\ messageRecords = SeedMessages(<< >>, messages)
  /\ timers = << >>
  /\ completed = << >>
  /\ returned = << >>
  /\ now = NowStart
  /\ writes = 0
  /\ authToken \in Tokens \cup {Null}
  /\ authQuery = [k \in Tokens \cup {Null} |-> IdleQuery]
  /\ userQuery = IdleQuery
  /\ location = "/"
  /\ guard = Unmounted
  /\ decisions = {}

StoreInit == Init /\ authToken = Null

AdvanceTime == \E d \in AdvanceSteps : Advance(d)

AuthNext ==
  \/ AdvanceTime
  \/ loginUserCall
  \/ \E t \in Tokens : checkAuthCall(t)
  \/ \E i \in 1..Len(timers) : loginUserResume(i)
  \/ \E i \in 1..Len(timers) : checkAuthResume(i)

DirectoryNext ==
  \/ AdvanceTime
  \/ Tick
  \/ getClientsCall
  \/ \E id \in ClientReadIds : getClientCall(id)
  \/ \E i \in 1..Len(timers) : getClientsResume(i)
  \/ \E i \in 1..Len(timers) : getClientResume(i)
  \/ \E c \in ClientInputs : setClientWrite(c)
  \/ \E r \in ClientRandoms : createEmptyClient(r)

LedgerNext ==
  \/ AdvanceTime
  \/ \E id \in MessageReadIds : getClientMessagesCall(id)
  \/ getAllMessagesCall
  \/ \E m \in MessageInputs : sendMessageCall(m)
  \/ \E i \in 1..Len(timers) : getClientMessagesResume(i)
  \/ \E i \in 1..Len(timers) : getAllMessagesResume(i)
  \/ \E i \in 1..Len(timers), r \in MessageRandoms : sendMessageResume(i, r)
  \/ \E m \in DirectMessages : addMessageWrite(m)

GuardNext ==
  \/ AdvanceTime
  \/ AppRouterMount
  \/ \E i \in 1..Len(timers) : UserRetry(i)
  \/ \E i \in 1..Len(timers) : UserSettle(i)
  \/ GuardMount
  \/ GuardRender
  \/ \E i \in 1..Len(timers) : AuthSettle(i)
  \/ FollowRedirect
  \/ IndexRedirect
  \/ \E p \in {"/", "/auth", "/chat"} : NavigateTo(p)
  \/ \E t \in Tokens : SetToken(t)
  \/ RemoveToken

Next == AuthNext \/ DirectoryNext \/ LedgerNext

AuthSpec == StoreInit /\ [][AuthNext]_vars
DirectorySpec == StoreInit /\ [][DirectoryNext]_vars
LedgerSpec == StoreInit /\ [][LedgerNext]_vars
GuardSpec == Init /\ [][GuardNext]_vars
\* Timers expire and settled promises run their continuations.
GuardFairSpec ==
  /\ GuardSpec
  /\ WF_vars(AdvanceTime)
  /\ WF_vars(\E i \in 1..Len(timers) : AuthSettle(i))
  /\ WF_vars(\E i \in 1..Len(timers) : UserSettle(i))
  /\ WF_vars(\E i \in 1..Len(timers) : UserRetry(i))
\* sendMessage next to the read of a client's messages; timers expire and the
\* continuations of settled sleeps run.
SendNext ==
  \/ AdvanceTime
  \/ \E m \in MessageInputs : sendMessageCall(m)
  \/ \E id \in MessageReadIds : getClientMessagesCall(id)
  \/ \E i \in 1..Len(timers), r \in MessageRandoms : sendMessageResume(i, r)
  \/ \E i \in 1..Len(timers) : getClientMessagesResume(i)
SendFairSpec ==
  /\ StoreInit /\ [][SendNext]_vars
  /\ WF_vars(AdvanceTime)
  /\ WF_vars(\E i \in 1..Len(timers), r \in MessageRandoms : sendMessageResume(i, r))
  /\ WF_vars(\E i \in 1..Len(timers) : getClientMessagesResume(i))

\* The two id generators over the extremes of the random source.
IdMessage == CHOOSE m \in MessageInputs : m.clientId = NeverId
IdNext ==
  \/ AdvanceTime
  \/ Tick
  \/ \E r \in IdRandoms : createEmptyClient(r)
  \/ sendMessageCall(IdMessage)
  \/ \E i \in 1..Len(timers), r \in IdRandoms : sendMessageResume(i, r)
IdSpec == StoreInit /\ [][IdNext]_vars

\* Operations of the directory, of the ledger and of the authenticator side
\* by side, each over one input.
StoresMessage == IdMessage
StoresClient == CHOOSE c \in ClientInputs : c.id = SeededId
StoresNext ==
  \/ AdvanceTime
  \/ loginUserCall
  \/ checkAuthCall(ExpectedToken)
  \/ getClientsCall
  \/ getClientCall(NeverId)
  \/ getClientMessagesCall(NeverId)
  \/ getAllMessagesCall
  \/ sendMessageCall(StoresMessage)
  \/ \E i \in 1..Len(timers) : loginUserResume(i)
  \/ \E i \in 1..Len(timers) : checkAuthResume(i)
  \/ \E i \in 1..Len(timers) : getClientsResume(i)
  \/ \E i \in 1..Len(timers) : getClientResume(i)
  \/ \E i \in 1..Len(timers) : getClientMessagesResume(i)
  \/ \E i \in 1..Len(timers) : getAllMessagesResume(i)
  \/ \E i \in 1..Len(timers) : sendMessageResume(i, 2345)
  \/ setClientWrite(StoresClient)
  \/ createEmptyClient(2345)
  \/ \E m \in DirectMessages : addMessageWrite(m)
StoresSpec == StoreInit /\ [][StoresNext]_vars

Spec == StoreInit /\ [][Next]_vars


(***************************************************************************)
(* Properties of the route guard, checked under GuardSpec.                 *)
(***************************************************************************)
SessionOf(token) == authQuery[token]
HasSession(token) ==
  SessionOf(token).status = "success" /\ SessionOf(token).data /= Undefined

\* C1: the guard renders its protected children only if checkAuth has produced a
\* successful, truthy result for the stored token it read; it never renders
\* them while no successful result exists.
C1_ChildrenOnlyWithSession ==
  (guard.mounted /\ guard.view = "children") => HasSession(guard.key)

\* C2: whenever the session result is an error or is absent (a token checkAuth
\* rejected, or no stored token at all), the guard's outcome is the redirect to
\* /auth, the same for a rejected and for a missing token.
C2_FailureRedirects ==
  (guard.mounted /\ (SessionOf(guard.key).status = "error" \/ ~Truthy(guard.key)))
    => guard.view = "redirect"

\* C3: the guard is in Loading whenever the session check has produced no result
\* yet, it eventually leaves Loading, and once the check for a token has produced
\* a result the guard is never again in Loading for that token.
C3_NoResultYet(token) == SessionOf(token).status = "pending"
C3_StartsLoading ==
  (guard.mounted /\ C3_NoResultYet(guard.key)) => guard.view = "loading"
C3_NeverBackToLoading ==
  \A t \in Tokens \cup {Null} :
    ~C3_NoResultYet(t) => ~(guard'.mounted /\ guard'.key = t /\ guard'.view = "loading")
C3_LoadingOnceThenSettled ==
  /\ []C3_StartsLoading
  /\ [][C3_NeverBackToLoading]_vars
  /\ (guard.view = "loading") ~> (guard.view /= "loading")

\* C4: the guard's render-or-redirect decision is a function of the
\* isAuthenticated signal alone (the same signal always gives the same
\* decision), and the guard starts no checkAuth call of its own.
C4_DecisionBySignal ==
  \A p, q \in decisions : p[1] = q[1] => p[2] = q[2]
C4_GuardStartsNoCall ==
  \A i \in 1..Len(timers) : timers[i].by /= "auth"
C4_GuardIsFunctionOfSignal == C4_DecisionBySignal /\ C4_GuardStartsNoCall


(***************************************************************************)
(* Properties of the mock backend.                                         *)
(***************************************************************************)
Calls(op) == {i \in 1..Len(completed) : completed[i].op = op}
Range(s) == {s[i] : i \in 1..Len(s)}
\* The call that settles in this step, if one does.
Settles(op) ==
  /\ Len(completed') = Len(completed) + 1
  /\ completed'[Len(completed')].op = op
JustSettled == completed'[Len(completed')]

Position(s, id) == CHOOSE i \in 1..Len(s) : s[i].id = id
C6_Listing(result, records) ==
  /\ Len(result) = Len(records)
  /\ \A r \in Range(records) : Cardinality({i \in 1..Len(result) : result[i] = r}) = 1
  /\ \A i \in 1..(Len(result) - 1) : result[i].memberSince >= result[i + 1].memberSince
  /\ records = SeedClients(<< >>, clients) =>
       Position(result, clients[1].id) < Position(result, clients[2].id)
C6_GetClientsSortedAndComplete ==
  [][Settles("getClients") => C6_Listing(JustSettled.value, clientRecords)]_vars

\* getClients has settled over a directory that grew by a record whose
\* memberSince ties with another record's.
C6_Witness ==
  \E i \in Calls("getClients") :
    /\ Len(completed[i].value) > Len(clients)
    /\ \E j \in 1..(Len(completed[i].value) - 1) :
         completed[i].value[j].memberSince = completed[i].value[j + 1].memberSince

\* C7: getClient(id) for an id that was never inserted resolves to undefined
\* (it does not throw), every repeated call gives that same result, and the
\* call leaves the directory as it was.  The directory never deletes, so an id
\* it does not hold now was never inserted.
C7_Absent ==
  \A i \in Calls("getClient") :
    ~HasClient(clientRecords, completed[i].arg) =>
      completed[i].kind = "resolved" /\ completed[i].value = Undefined
C7_GetClientAbsent ==
  /\ []C7_Absent
  /\ [][Settles("getClient") => clientRecords' = clientRecords]_vars

\* getClient has settled twice for the same id that the directory never held.
C7_Witness ==
  \E i, j \in Calls("getClient") :
    /\ i < j
    /\ completed[i].arg = completed[j].arg
    /\ ~HasClient(clientRecords, completed[i].arg)

\* C8: getClientMessages(clientId) for a clientId with no appended message
\* resolves to the empty sequence (it never fails) and creates no group for
\* that clientId.  The ledger never removes a group, so a clientId without a
\* group now had none when the call settled.
C8_Empty ==
  \A i \in Calls("getClientMessages") :
    ~HasGroup(messageRecords, completed[i].arg) =>
      completed[i].kind = "resolved" /\ completed[i].value = << >>
C8_GetClientMessagesEmpty ==
  /\ []C8_Empty
  /\ [][Settles("getClientMessages") => messageRecords' = messageRecords]_vars

\* getClientMessages has settled for a clientId without messages.
C8_Witness ==
  \E i \in Calls("getClientMessages") : ~HasGroup(messageRecords, completed[i].arg)

IsDigits(s) == \A k \in 1..Len(s) : s[k] \in Range(DigitChar)
IsMessageId(id) ==
  /\ Len(id) = 8
  /\ SubSeq(id, 1, 3) = << "M", "1", "-" >>
  /\ IsDigits(SubSeq(id, 4, 8))
C10_SendMessageResult ==
  \A i \in Calls("sendMessage") :
    LET sent == completed[i].arg
        created == completed[i].value
    IN /\ completed[i].kind = "resolved"
       /\ created.clientId = sent.clientId
       /\ created.content = sent.content
       /\ created.createdAt = sent.createdAt
       /\ created.sender = sent.sender
       /\ created.like = "neutral"
       /\ IsMessageId(created.id)
       /\ created \in Range(getMessages(messageRecords, created.clientId))

\* sendMessage has settled for a client without a directory record or group
\* of its own before, with the largest number the generator yields.
C10_Witness ==
  \E i \in Calls("sendMessage") :
    /\ completed[i].arg.clientId = NeverId
    /\ completed[i].value.id = << "M", "1", "-", "9", "9", "9", "9", "9" >>


(***************************************************************************)
(* Properties of id generation and of the stores' contents.                *)
(***************************************************************************)
DigitValue(c) == CHOOSE d \in 0..9 : DigitChar[d + 1] = c
RECURSIVE DigitsToNumber(_)
DigitsToNumber(s) ==
  IF s = << >> THEN 0
  ELSE 10 * DigitsToNumber(SubSeq(s, 1, Len(s) - 1)) + DigitValue(s[Len(s)])
\* The number after the `C1-` or `M1-` of an id.
IdNumber(id) == DigitsToNumber(SubSeq(id, 4, Len(id)))
StoredMessages == Range(Flat([i \in 1..Len(messageRecords) |-> messageRecords[i].list]))
StoredIdNumbers ==
  {IdNumber(c.id) : c \in Range(clientRecords)} \cup {IdNumber(m.id) : m \in StoredMessages}

\* C11 as stated: every id number that createEmptyClient or sendMessage
\* generates is an integer n with 10000 <= n < 99999.
C11_IdBelow99999 == \A n \in StoredIdNumbers : 10000 <= n /\ n < 99999

\* C11 as amended: every id number that createEmptyClient or sendMessage
\* generates is an integer n with 10000 <= n <= 99999 (five digits), for the
\* least and the greatest value the random source can return.
C11_IdHasFiveDigits ==
  \A n \in StoredIdNumbers : ClientIdBase <= n /\ n < ClientIdBase + ClientIdSpan

\* createEmptyClient has generated the least and the greatest id number, and
\* sendMessage the greatest.
C11_Witness ==
  /\ \E c \in Range(clientRecords) : c.name = "" /\ IdNumber(c.id) = 10000
  /\ \E c \in Range(clientRecords) : c.name = "" /\ IdNumber(c.id) = 99999
  /\ \E i \in Calls("sendMessage") : IdNumber(completed[i].value.id) = 99999


\* C12: when two createEmptyClient calls generate the same id, the directory
\* afterwards holds exactly one record under that id and it is the record of
\* the second call; the second call returns normally and leaves the size of
\* the directory as it was, so the two calls together grow it by one.
Colliding(i, j) ==
  /\ i < j
  /\ returned[i].id = returned[j].id
  /\ ~\E k \in (j + 1)..Len(returned) : returned[k].id = returned[j].id
C12_SecondSurvives ==
  \A i, j \in 1..Len(returned) :
    Colliding(i, j) =>
      /\ Cardinality({k \in 1..Len(clientRecords) : clientRecords[k].id = returned[j].id}) = 1
      /\ getClient(clientRecords, returned[j].id) = returned[j]
C12_GrowsByOne ==
  Len(returned') = Len(returned) + 1 =>
    Len(clientRecords') = Len(clientRecords) +
      (IF HasClient(clientRecords, returned'[Len(returned')].id) THEN 0 ELSE 1)
C12_CollisionOverwrites == []C12_SecondSurvives /\ [][C12_GrowsByOne]_vars

\* Two createEmptyClient calls have generated the same id at different times,
\* so that their records differ.
C12_Witness ==
  \E i, j \in 1..Len(returned) : Colliding(i, j) /\ returned[i] /= returned[j]


\* C13: message ids are unique: after the startup seed and any sequence of
\* sendMessage calls, no two messages stored in the ledger, in one group or
\* in different groups, have the same id.
AllStored == Flat([i \in 1..Len(messageRecords) |-> messageRecords[i].list])
C13_MessageIdsUnique ==
  \A i, j \in 1..Len(AllStored) : AllStored[i].id = AllStored[j].id => i = j


\* C14: a client's memberSince is immutable: once the directory holds a
\* record under an id, every step, whether a setClient or a createEmptyClient
\* call, leaves the memberSince stored under that id as it was.
C14_KeepsMemberSince ==
  \A c \in Range(clientRecords) :
    /\ HasClient(clientRecords', c.id)
    /\ getClient(clientRecords', c.id).memberSince = c.memberSince
C14_MemberSinceImmutable == [][C14_KeepsMemberSince]_vars


\* C15: the ledger is append-only per group: over every step (addMessage,
\* sendMessage, getClientMessages, getAllMessages) each group's sequence
\* before the step is a prefix of its sequence after it, so no message is
\* removed or reordered; and a group comes into being only with the first
\* message appended for its client, so no group is ever empty.
IsPrefix(a, b) == Len(a) <= Len(b) /\ SubSeq(b, 1, Len(a)) = a
C15_GroupsGrow ==
  \A i \in 1..Len(messageRecords) :
    /\ HasGroup(messageRecords', messageRecords[i].key)
    /\ IsPrefix(messageRecords[i].list, GroupOf(messageRecords', messageRecords[i].key))
C15_GroupsStartLazily ==
  \A i \in 1..Len(messageRecords') :
    ~HasGroup(messageRecords, messageRecords'[i].key) => Len(messageRecords'[i].list) = 1
C15_NoEmptyGroup == \A i \in 1..Len(messageRecords) : messageRecords[i].list /= << >>
C15_AppendOnly ==
  /\ []C15_NoEmptyGroup
  /\ [][C15_GroupsGrow /\ C15_GroupsStartLazily]_vars

\* sendMessage has appended to a group that the seed filled and has opened a
\* group for a client that had none.
C15_Witness ==
  /\ Len(getMessages(messageRecords, SeededId)) >
       Len(getMessages(SeedMessages(<< >>, messages), SeededId))
  /\ HasGroup(messageRecords, NeverId)


\* C16: whenever getAllMessages settles, its result holds exactly the messages
\* of all groups (each as often as the groups hold it, none lost, none added),
\* with createdAt non-increasing from first to last.
Count(s, x) == Cardinality({i \in 1..Len(s) : s[i] = x})
C16_Flattened(result, stored) ==
  /\ Len(result) = Len(stored)
  /\ \A x \in Range(result) \cup Range(stored) : Count(result, x) = Count(stored, x)
  /\ \A i \in 1..(Len(result) - 1) : result[i].createdAt >= result[i + 1].createdAt
C16_GetAllMessagesSortedAndComplete ==
  [][Settles("getAllMessages") => C16_Flattened(JustSettled.value, AllStored)]_vars

\* getAllMessages has settled over a ledger that a sendMessage extended by a
\* message whose createdAt equals that of a seed message.
C16_Witness ==
  \E i \in Calls("sendMessage"), j \in Calls("getAllMessages") :
    /\ i < j
    /\ completed[i].value.createdAt = SeedCreatedAt
    /\ Len(completed[j].value) > Len(messages)


\* C17: every result of getClientMessages is ordered by creation date: its
\* createdAt values run monotonically (oldest first, or most recent first),
\* whatever createdAt the sendMessage calls before it carried.
OldestFirst(s) == \A i \in 1..(Len(s) - 1) : s[i].createdAt <= s[i + 1].createdAt
NewestFirst(s) == \A i \in 1..(Len(s) - 1) : s[i].createdAt >= s[i + 1].createdAt
C17_GetClientMessagesByDate ==
  \A i \in Calls("getClientMessages") :
    OldestFirst(completed[i].value) \/ NewestFirst(completed[i].value)


(***************************************************************************)
(* Properties of concurrent calls.                                         *)
(***************************************************************************)
\* Two sendMessage calls for one client, both pending: i was issued first.
Overlapping(i, j) ==
  /\ i < j
  /\ timers[i].op = "sendMessage" /\ timers[j].op = "sendMessage"
  /\ timers[i].arg.clientId = timers[j].arg.clientId

\* C18 as stated: two overlapping sendMessage calls on the same client race
\* independently: once the delays of both have passed, either call may
\* complete next, so that either message may end up before the other in the
\* client's group.
C18_EitherMayCompleteNext ==
  \A i, j \in 1..Len(timers) :
    (Overlapping(i, j) /\ timers[i].rem = 0 /\ timers[j].rem = 0) =>
      /\ ENABLED (\E r \in MessageRandoms : sendMessageResume(i, r))
      /\ ENABLED (\E r \in MessageRandoms : sendMessageResume(j, r))

\* C18 as amended: two overlapping sendMessage calls on the same client
\* complete in the order in which they were issued: the call that completes
\* is the one issued first among the pending ones for its client, and its
\* message goes to the end of the group, before those of the calls still
\* pending.
FirstPending(clientId) ==
  CHOOSE i \in 1..Len(timers) :
    /\ timers[i].op = "sendMessage" /\ timers[i].arg.clientId = clientId
    /\ ~\E k \in 1..(i - 1) :
          timers[k].op = "sendMessage" /\ timers[k].arg.clientId = clientId
C18_FirstIssuedCompletes ==
  Settles("sendMessage") =>
    LET clientId == JustSettled.arg.clientId
        group == getMessages(messageRecords', clientId)
    IN /\ timers' = Without(timers, FirstPending(clientId))
       /\ JustSettled.arg = timers[FirstPending(clientId)].arg
       /\ group = Append(getMessages(messageRecords, clientId), JustSettled.value)
C18_SendsCompleteInIssueOrder == [][C18_FirstIssuedCompletes]_vars

\* The delays of two sendMessage calls that carry different messages for the
\* same client have both passed, and neither call has completed.
C18_Witness ==
  \E i, j \in 1..Len(timers) :
    /\ Overlapping(i, j)
    /\ timers[i].arg /= timers[j].arg
    /\ timers[i].rem = 0 /\ timers[j].rem = 0


\* C19: no started operation can be cancelled: a pending sendMessage call
\* leaves the timer queue only by completing, which appends its message to
\* the ledger, and under fairness of the timers every sendMessage call that
\* has been started does complete, whatever the caller does meanwhile.
PendingSends == {i \in 1..Len(timers) : timers[i].op = "sendMessage"}
C19_LeavesOnlyByAppending ==
  Cardinality(PendingSends') < Cardinality(PendingSends) =>
    /\ Cardinality(PendingSends') = Cardinality(PendingSends) - 1
    /\ Settles("sendMessage")
    /\ \E i \in PendingSends :
         /\ timers' = Without(timers, i)
         /\ JustSettled.arg = timers[i].arg
         /\ getMessages(messageRecords', timers[i].arg.clientId) =
              Append(getMessages(messageRecords, timers[i].arg.clientId),
                     [id |-> JustSettled.value.id, clientId |-> timers[i].arg.clientId,
                      content |-> timers[i].arg.content,
                      createdAt |-> timers[i].arg.createdAt,
                      sender |-> timers[i].arg.sender, like |-> "neutral"])
C19_StartedSendAppends ==
  /\ [][C19_LeavesOnlyByAppending]_vars
  /\ (PendingSends /= {}) ~> (PendingSends = {})

\* A sendMessage has appended its message while the caller, instead of
\* awaiting it, went on to issue another call, which is still pending.
C19_Witness ==
  /\ Calls("sendMessage") /= {}
  /\ timers /= << >>
  /\ timers[1].rem < timers[1].delay


\* C20: no session validation is retried automatically: once an attempt of
\* a query has failed (checkAuth rejected the token, or no token was found),
\* the query's function is not invoked again for that attempt; this holds of
\* the guard's ['auth', token] queries and of AppRouter's 'user' query alike.
\* failureCount counts the failed invocations of the attempt under way.
C20_UserNotRetried ==
  /\ userQuery.failureCount <= 1
  /\ \A i \in 1..Len(timers) :
       (timers[i].op = "checkAuth" /\ timers[i].by = "user") => userQuery.failureCount = 0
C20_AuthNotRetried ==
  /\ \A t \in Tokens \cup {Null} : authQuery[t].failureCount <= 1
  /\ \A i \in 1..Len(timers) :
       (timers[i].op = "checkAuth" /\ timers[i].by = "auth") =>
         authQuery[timers[i].arg].failureCount = 0
C20_NoValidationRetried == C20_UserNotRetried /\ C20_AuthNotRetried


(***************************************************************************)
(* Frame properties of the stores.                                         *)
(***************************************************************************)
LedgerOps == {"sendMessage", "getClientMessages", "getAllMessages"}
DirectoryOps == {"getClients", "getClient"}
AuthOps == {"loginUser", "checkAuth"}

\* C21: the two stores are independent: no step of a ledger operation
\* (sendMessage, getClientMessages, getAllMessages, addMessage) changes the
\* directory, no step of a directory operation (getClients, getClient,
\* setClient, createEmptyClient) changes the ledger, and loginUser and
\* checkAuth change neither; a sendMessage whose clientId the directory does
\* not hold resolves, its message is stored, and no client is created.
C21_Independent ==
  /\ messageRecords' /= messageRecords => clientRecords' = clientRecords
  /\ \A op \in LedgerOps : Settles(op) => clientRecords' = clientRecords
  /\ \A op \in DirectoryOps : Settles(op) => messageRecords' = messageRecords
  /\ \A op \in AuthOps :
       Settles(op) => clientRecords' = clientRecords /\ messageRecords' = messageRecords
  /\ Len(timers') > Len(timers) =>
       clientRecords' = clientRecords /\ messageRecords' = messageRecords
C21_OrphanStored ==
  \A i \in Calls("sendMessage") :
    /\ completed[i].kind = "resolved"
    /\ completed[i].value \in Range(getMessages(messageRecords, completed[i].arg.clientId))
    /\ ~HasClient(SeedClients(<< >>, clients), completed[i].arg.clientId) =>
         (HasClient(clientRecords, completed[i].arg.clientId) =>
            \E j \in 1..Len(returned) : returned[j].id = completed[i].arg.clientId)
C21_StoresIndependent == []C21_OrphanStored /\ [][C21_Independent]_vars

\* A sendMessage for a clientId outside the directory has settled while the
\* directory was written to, and a directory read has settled as well.
C21_Witness ==
  /\ \E i \in Calls("sendMessage") : ~HasClient(clientRecords, completed[i].arg.clientId)
  /\ Calls("getClients") /= {}
  /\ writes > 0 /\ clientRecords /= SeedClients(<< >>, clients)


\* C22: setClient(client) inserts or fully replaces the record keyed by
\* client.id: afterwards getClient(client.id) yields exactly that record,
\* every record under another id is unchanged, and the number of records
\* has grown by one if the id was new and by zero otherwise.
Upserted(before, after, client) ==
  /\ getClient(after, client.id) = client
  /\ \A c \in Range(before) : c.id /= client.id => getClient(after, c.id) = c
  /\ \A c \in Range(after) : c.id /= client.id => HasClient(before, c.id)
  /\ Len(after) = Len(before) + (IF HasClient(before, client.id) THEN 0 ELSE 1)
\* What a directory write of this step was handed: the client that
\* createEmptyClient built, or one of the clients setClient is called with.
WrittenClients ==
  IF Len(returned') > Len(returned) THEN {returned'[Len(returned')]} ELSE ClientInputs
C22_WriteUpserts ==
  (writes' = writes + 1 /\ messageRecords' = messageRecords) =>
    \E client \in WrittenClients : Upserted(clientRecords, clientRecords', client)
C22_SetClientUpserts == [][C22_WriteUpserts]_vars

\* setClient has replaced the record of a seed client and has inserted a
\* record under a new id.
C22_Witness ==
  /\ \E client \in ClientInputs :
        /\ HasClient(clients, client.id)
        /\ getClient(clientRecords, client.id) = client
  /\ Len(clientRecords) = Len(clients) + 1


C24_ReadAtElapse ==
  \A read \in Calls("getAllMessages"), send \in Calls("sendMessage") :
    send < read => completed[send].value \in Range(completed[read].value)

\* A getAllMessages call was made first, the sendMessage call made after it
\* completed first, and the read returned the new message.
C24_Witness ==
  \E read \in Calls("getAllMessages"), send \in Calls("sendMessage") :
    /\ completed[read].issued < completed[send].issued
    /\ send < read
    /\ completed[send].value \in Range(completed[read].value)


\* C25: the guard's query calls checkAuth only when a non-empty token is
\* stored: every checkAuth call of useAuthQuery carries a non-empty token, and
\* while no token is stored no such call starts and the query of the guard
\* stays disabled: idle, with no data and no error.
AuthCalls(pending) == {i \in 1..Len(pending) : pending[i].by = "auth"}
C25_DisabledWithoutToken ==
  /\ \A i \in AuthCalls(timers) : Truthy(timers[i].arg)
  /\ \A token \in DOMAIN authQuery : ~Truthy(token) => authQuery[token] = IdleQuery
  /\ (guard.mounted /\ ~Truthy(guard.key)) =>
       LET result == useQueryResult(authQuery[guard.key])
       IN result.data = Undefined /\ ~result.isError /\ ~result.isLoading
C25_NoCallStarts ==
  ~Truthy(authToken) => Cardinality(AuthCalls(timers')) <= Cardinality(AuthCalls(timers))
C25_CheckAuthOnlyWithToken ==
  [](C25_DisabledWithoutToken) /\ [][C25_NoCallStarts]_vars

\* The guard is mounted while no non-empty token is stored, and its query has
\* not run.
C25_Witness ==
  /\ guard.mounted
  /\ guard.key = authToken
  /\ ~Truthy(authToken)
  /\ authQuery[authToken] = IdleQuery


\* C26: sorted reads do not mutate the stores: when getClients or
\* getAllMessages settles, the directory's records and every group of the
\* ledger, the insertion order inside each group included, are exactly as
\* before, although the result is in another order than the store.
C26_ReadLeavesStores ==
  (Settles("getClients") \/ Settles("getAllMessages")) =>
    /\ clientRecords' = clientRecords
    /\ messageRecords' = messageRecords
C26_SortedReadsDoNotMutate == [][C26_ReadLeavesStores]_vars

\* getClients and getAllMessages have settled, each with a result that is
\* ordered otherwise than the store is, in a run that also wrote to a store.
C26_Witness ==
  /\ writes > 0
  /\ \E i \in Calls("getClients") : completed[i].value /= clientRecords
  /\ \E i \in Calls("getAllMessages") : completed[i].value /= AllStored


====
